---- MODULE Spec2Model ----
(***************************************************************************)
(* Shift assignment engine of soto0129/shift-management.                   *)
(*                                                                         *)
(* optimizeShift of app/api/optimize/route.ts (the per-day engine) is      *)
(* modelled statement by statement: validation, the staffInfo /            *)
(* staffWorkCount registration, the per-date candidate pool, the sort, the *)
(* assignment loop and the formatting of the result.  optimizeShift of     *)
(* the flat-output generate-shift route shares the same loops and differs  *)
(* in the staff id it derives and in the shape of what it returns.         *)
(*                                                                         *)
(* JavaScript values:                                                      *)
(*   - an optional number or array is <<>> when absent and <<v>> when      *)
(*     given;                                                              *)
(*   - a falsy string (undefined or "") is "";                             *)
(*   - an object used as a map is a function plus the sequence of its keys *)
(*     in insertion order; Object.entries lists array-index keys first,    *)
(*     ascending, then the other keys in insertion order.                  *)
(***************************************************************************)
EXTENDS Integers, Sequences, FiniteSets, TLC

VARIABLES
    inputData,       \* the request: staff, dates, constraints
    variant,         \* which optimizeShift is running: "optimize" or "flat"
    pc,              \* position in optimizeShift
    scheduleKeys,    \* keys of schedule, in insertion order
    schedule,        \* schedule: date -> staff ids pushed so far
    staffKeys,       \* keys of staffInfo / staffWorkCount, in insertion order
    staffInfo,       \* staffInfo: staff id -> preferredDates, unavailableDates, maxDays, minDays
    staffWorkCount,  \* staffWorkCount: staff id -> number of assignments
    dateIdx,         \* index in dates of the date of the outer loop
    availableStaff,  \* availableStaff of the current date, sorted
    cursor,          \* position of the inner loop in availableStaff
    assignedCount,   \* assignedCount of the current date
    result,          \* what optimizeShift returned
    runs             \* results of the runs completed before the current one

vars == <<inputData, variant, pc, scheduleKeys, schedule, staffKeys, staffInfo,
          staffWorkCount, dateIdx, availableStaff, cursor, assignedCount,
          result, runs>>

engineVars == <<scheduleKeys, schedule, staffKeys, staffInfo, staffWorkCount,
                dateIdx, availableStaff, cursor, assignedCount>>

----------------------------------------------------------------------------
(* Bounds of the checked inputs *)

MaxStaff == 2        \* longest roster
MaxDates == 2        \* longest date list
MaxMaxDays == 1      \* largest max_days given explicitly
MaxPerDay == 1       \* largest max_staff_per_day given explicitly
MaxListed == 1       \* most dates in one preferred_dates or unavailable_dates

DateTokens == {"d1", "d2"}
IdValues == {"", "1"}         \* "1" is an array-index key
NameValues == {"", "a"}
SyntheticIds == {"staff_x", "staff_y"}

----------------------------------------------------------------------------
(* JavaScript helpers *)

Undefined == <<>>
Some(v) == <<v>>

\* a ?? b
Nullish(a, b) == IF a = Undefined THEN b ELSE a[1]

\* !x || x.length === 0 for an optional array
MissingOrEmpty(x) == x = Undefined \/ Len(x[1]) = 0

Range(s) == {s[i] : i \in 1..Len(s)}

RECURSIVE SumSeq(_)
SumSeq(s) == IF s = <<>> THEN 0 ELSE s[1] + SumSeq(Tail(s))

\* keys of a map after obj[k] = ... : a new key goes last, an old one keeps its place
PutKey(keys, k) == IF k \in Range(keys) THEN keys ELSE Append(keys, k)

RECURSIVE PutKeys(_, _)
PutKeys(keys, ks) ==
    IF ks = <<>> THEN keys ELSE PutKeys(PutKey(keys, ks[1]), Tail(ks))

\* canonical array-index strings (one digit is all the checked ids need)
Digits == <<"0", "1", "2", "3", "4", "5", "6", "7", "8", "9">>
IsArrayIndex(k) == \E i \in 1..Len(Digits) : Digits[i] = k
ToIndex(k) == (CHOOSE i \in 1..Len(Digits) : Digits[i] = k) - 1

RECURSIVE AscendingIndexKeys(_)
AscendingIndexKeys(S) ==
    IF S = {} THEN <<>>
    ELSE LET m == CHOOSE x \in S : \A y \in S : ToIndex(x) <= ToIndex(y)
         IN <<m>> \o AscendingIndexKeys(S \ {m})

\* Object.entries(obj): order of the own keys
OwnKeys(keys) ==
    LET NotIndex(k) == ~IsArrayIndex(k)
    IN AscendingIndexKeys({k \in Range(keys) : IsArrayIndex(k)})
         \o SelectSeq(keys, NotIndex)

----------------------------------------------------------------------------
(* The requests that are checked *)

DateSets == {S \in SUBSET DateTokens : Cardinality(S) <= MaxListed}

MaxDaysInputs == {Undefined} \cup {Some(n) : n \in 0..MaxMaxDays}

\* interface Staff; "" is an id or name that is absent (or empty: both are falsy)
StaffInputs ==
    [id : IdValues, name : NameValues,
     preferred_dates : DateSets,
     unavailable_dates : DateSets,
     max_days : MaxDaysInputs,
     min_days : {Undefined}]

Rosters == UNION {[1..n -> StaffInputs] : n \in 0..MaxStaff}

DateLists == UNION {[1..n -> DateTokens] : n \in 0..MaxDates}

\* interface Constraints
ConstraintInputs ==
    [min_staff_per_day : {Undefined, Some(2)},
     max_staff_per_day : {Undefined} \cup {Some(n) : n \in 1..MaxPerDay}]

\* interface InputData
Requests ==
    [staff : {Undefined} \cup {Some(r) : r \in Rosters},
     dates : {Undefined} \cup {Some(d) : d \in DateLists},
     constraints : ConstraintInputs]

NoResult == [pending |-> TRUE]

----------------------------------------------------------------------------
(* optimizeShift: the values it derives from the request *)

staffList == inputData.staff[1]
dates == inputData.dates[1]
minStaff == Nullish(inputData.constraints.min_staff_per_day, 1)
maxStaff == Nullish(inputData.constraints.max_staff_per_day, Len(staffList))

\* staff.id || staff.name || `staff_${Math.random()...}`
StaffId(staff, random) ==
    IF staff.id # "" THEN staff.id
    ELSE IF staff.name # "" THEN staff.name
    ELSE random

\* staff.id || staff.name, used as a property key
FlatStaffId(staff) ==
    IF staff.id # "" THEN staff.id
    ELSE IF staff.name # "" THEN staff.name
    ELSE "undefined"

\* the record stored in staffInfo[staffId]
StaffInfoOf(staff) ==
    [preferredDates |-> staff.preferred_dates,
     unavailableDates |-> staff.unavailable_dates,
     maxDays |-> Nullish(staff.max_days, Len(dates)),
     minDays |-> Nullish(staff.min_days, 0)]

\* staffInfo after the forEach over staffList, ids[i] being the id of staffList[i]:
\* a later member with the same id overwrites the earlier one
RegisteredInfo(ids) ==
    [k \in Range(ids) |->
        LET last == CHOOSE i \in 1..Len(ids) :
                        ids[i] = k /\ \A j \in 1..Len(ids) : ids[j] = k => j <= i
        IN StaffInfoOf(staffList[last])]

\* the members that get a generated id
Unidentified == {i \in 1..Len(staffList) : staffList[i].id = "" /\ staffList[i].name = ""}

----------------------------------------------------------------------------
(* The per-date candidate pool *)

\* Eligible with > for >= in the maxDays test
EligibleOffByOne(staffId, d) ==
    /\ d \notin staffInfo[staffId].unavailableDates
    /\ ~(staffWorkCount[staffId] > staffInfo[staffId].maxDays)

\* Eligible with a preferred date never excluded
EligiblePreferenceWins(staffId, d) ==
    /\ d \in staffInfo[staffId].preferredDates
          \/ d \notin staffInfo[staffId].unavailableDates
    /\ ~(staffWorkCount[staffId] >= staffInfo[staffId].maxDays)

\* on date d, neither of the two  continue  statements is taken
Eligible(staffId, d) ==
    /\ d \notin staffInfo[staffId].unavailableDates
    /\ ~(staffWorkCount[staffId] >= staffInfo[staffId].maxDays)

Score(staffId, d) ==
    LET base == staffWorkCount[staffId] * 10
    IN IF d \in staffInfo[staffId].preferredDates THEN base - 100 ELSE base

\* availableStaff after the loop over Object.entries(staffInfo)
Candidates(d) ==
    LET Pass(staffId) == Eligible(staffId, d)
        pool == SelectSeq(OwnKeys(staffKeys), Pass)
    IN [i \in 1..Len(pool) |-> [id |-> pool[i], score |-> Score(pool[i], d)]]

\* Compare with the operands swapped: descending order
CompareDescending(a, b) == b.score - a.score

\* comparator of the sort
Compare(a, b) == a.score - b.score

\* Array.prototype.sort is stable: x goes after every element it does not precede
RECURSIVE InsertSorted(_, _)
InsertSorted(sorted, x) ==
    IF sorted = <<>> THEN <<x>>
    ELSE IF Compare(x, sorted[1]) < 0 THEN <<x>> \o sorted
    ELSE <<sorted[1]>> \o InsertSorted(Tail(sorted), x)

RECURSIVE SortByScore(_)
SortByScore(s) ==
    IF s = <<>> THEN <<>>
    ELSE InsertSorted(SortByScore(SubSeq(s, 1, Len(s) - 1)), s[Len(s)])

\* InnerDone with > for >= in the test of the break
InnerDoneBreakLate ==
    \/ dateIdx = 0
    \/ cursor > Len(availableStaff)
    \/ assignedCount > maxStaff

\* the inner loop has ended: availableStaff is exhausted or the break is taken
InnerDone ==
    \/ dateIdx = 0
    \/ cursor > Len(availableStaff)
    \/ assignedCount >= maxStaff

----------------------------------------------------------------------------
(* The result *)

\* resultSchedule: one item per entry of dates
ResultSchedule ==
    [i \in 1..Len(dates) |->
        [date |-> dates[i], staff |-> schedule[dates[i]], count |-> Len(schedule[dates[i]])]]

\* WarningsFrom with <= for < in the shortage test
RECURSIVE WarningsFromInclusive(_)
WarningsFromInclusive(i) ==
    IF i > Len(dates) THEN <<>>
    ELSE LET assigned == schedule[dates[i]]
         IN (IF Len(assigned) <= minStaff
             THEN <<[date |-> dates[i], min |-> minStaff, count |-> Len(assigned)]>>
             ELSE <<>>) \o WarningsFromInclusive(i + 1)

\* a warning message carries the date, minStaff and assigned.length
RECURSIVE WarningsFrom(_)
WarningsFrom(i) ==
    IF i > Len(dates) THEN <<>>
    ELSE LET assigned == schedule[dates[i]]
         IN (IF Len(assigned) < minStaff
             THEN <<[date |-> dates[i], min |-> minStaff, count |-> Len(assigned)]>>
             ELSE <<>>) \o WarningsFrom(i + 1)

\* Object.values(staffWorkCount).reduce((sum, count) => sum + count, 0)
TotalAssignments ==
    LET keys == OwnKeys(staffKeys)
    IN SumSeq([i \in 1..Len(keys) |-> staffWorkCount[keys[i]]])

\* Math.round((total / n) * 10) / 10, kept in tenths
AveragePerStaffTenths(total, n) ==
    IF n > 0 THEN (2 * total * 10 + n) \div (2 * n) ELSE 0

OptimizeResult ==
    LET warnings == WarningsFrom(1)
    IN [success |-> TRUE,
        schedule |-> ResultSchedule,
        stats |-> [total_assignments |-> TotalAssignments,
                   staff_distribution |-> staffWorkCount,
                   average_per_staff |-> AveragePerStaffTenths(TotalAssignments, Len(staffList)),
                   days_with_shortage |-> Len(warnings)],
        warnings |-> IF Len(warnings) > 0 THEN Some(warnings) ELSE Undefined]

\* shifts: one record per pushed staff id, date by date
RECURSIVE ShiftsFrom(_)
ShiftsFrom(i) ==
    IF i > Len(dates) THEN <<>>
    ELSE LET assignedStaff == schedule[dates[i]]
         IN [j \in 1..Len(assignedStaff) |->
                [staff_id |-> assignedStaff[j], date |-> dates[i],
                 start_time |-> "09:00", end_time |-> "17:00"]]
            \o ShiftsFrom(i + 1)

FlatResult == [success |-> TRUE, shifts |-> ShiftsFrom(1)]

\* the two validation failures ("no staff registered", "no dates given")
NoStaffError == [success |-> FALSE, error |-> "no staff registered"]
NoDatesError == [success |-> FALSE, error |-> "no dates given"]

\* ValidationError with the date list checked before the roster
ValidationDatesFirst ==
    IF MissingOrEmpty(inputData.dates) THEN Some(NoDatesError)
    ELSE IF MissingOrEmpty(inputData.staff) THEN Some(NoStaffError)
    ELSE Undefined

\* the validation of optimizeShift: Undefined when the request passes it
ValidationError ==
    IF MissingOrEmpty(inputData.staff) THEN Some(NoStaffError)
    ELSE IF MissingOrEmpty(inputData.dates) THEN Some(NoDatesError)
    ELSE Undefined

----------------------------------------------------------------------------
(* The state machine *)

EngineInit ==
    /\ scheduleKeys = <<>>
    /\ schedule = <<>>
    /\ staffKeys = <<>>
    /\ staffInfo = <<>>
    /\ staffWorkCount = <<>>
    /\ dateIdx = 0
    /\ availableStaff = <<>>
    /\ cursor = 0
    /\ assignedCount = 0

Init ==
    /\ inputData \in Requests
    /\ variant = "optimize"
    /\ pc = "validate"
    /\ EngineInit
    /\ result = NoResult
    /\ runs = <<>>

\* the two early returns
Validate ==
    /\ pc = "validate"
    /\ IF ValidationError # Undefined
       THEN /\ result' = ValidationError[1]
            /\ pc' = "done"
       ELSE /\ result' = result
            /\ pc' = "prepare"
    /\ UNCHANGED <<inputData, variant, engineVars, runs>>

\* schedule, staffInfo and staffWorkCount are filled, ids[i] being the id of staffList[i]
Register(ids) ==
    /\ scheduleKeys' = PutKeys(<<>>, dates)
    /\ schedule' = [d \in Range(dates) |-> <<>>]
    /\ staffKeys' = PutKeys(<<>>, ids)
    /\ staffInfo' = RegisteredInfo(ids)
    /\ staffWorkCount' = [k \in Range(ids) |-> 0]
    /\ pc' = "loop"
    /\ UNCHANGED <<inputData, variant, dateIdx, availableStaff, cursor, assignedCount,
                   result, runs>>

\* per-day engine: a member without id and name gets a random id
Prepare ==
    /\ pc = "prepare"
    /\ variant = "optimize"
    /\ \E random \in [Unidentified -> SyntheticIds] :
          Register([i \in 1..Len(staffList) |->
                       StaffId(staffList[i],
                               IF i \in Unidentified THEN random[i] ELSE "")])

\* flat engine: no fallback id
FlatPrepare ==
    /\ pc = "prepare"
    /\ variant = "flat"
    /\ Register([i \in 1..Len(staffList) |-> FlatStaffId(staffList[i])])

\* the outer loop takes the next date, builds availableStaff and sorts it
StartDate ==
    /\ pc = "loop"
    /\ InnerDone
    /\ dateIdx < Len(dates)
    /\ dateIdx' = dateIdx + 1
    /\ availableStaff' = SortByScore(Candidates(dates[dateIdx + 1]))
    /\ cursor' = 1
    /\ assignedCount' = 0
    /\ UNCHANGED <<inputData, variant, pc, scheduleKeys, schedule, staffKeys, staffInfo,
                   staffWorkCount, result, runs>>

\* one iteration of the inner loop: the next candidate is assigned
Assign ==
    /\ pc = "loop"
    /\ ~InnerDone
    /\ LET staffId == availableStaff[cursor].id
       IN /\ schedule' = [schedule EXCEPT ![dates[dateIdx]] = Append(@, staffId)]
          /\ staffWorkCount' = [staffWorkCount EXCEPT ![staffId] = @ + 1]
    /\ assignedCount' = assignedCount + 1
    /\ cursor' = cursor + 1
    /\ UNCHANGED <<inputData, variant, pc, scheduleKeys, staffKeys, staffInfo, dateIdx,
                   availableStaff, result, runs>>

\* per-day engine: schedule, stats and warnings are returned
Format ==
    /\ pc = "loop"
    /\ variant = "optimize"
    /\ InnerDone
    /\ dateIdx = Len(dates)
    /\ result' = OptimizeResult
    /\ pc' = "done"
    /\ UNCHANGED <<inputData, variant, engineVars, runs>>

\* flat engine: shifts are returned
FlatFormat ==
    /\ pc = "loop"
    /\ variant = "flat"
    /\ InnerDone
    /\ dateIdx = Len(dates)
    /\ result' = FlatResult
    /\ pc' = "done"
    /\ UNCHANGED <<inputData, variant, engineVars, runs>>

\* the same request is sent again to variant v: a fresh optimizeShift starts
CallAgain(v) ==
    /\ pc = "done"
    /\ runs = <<>>
    /\ runs' = <<result>>
    /\ variant' = v
    /\ pc' = "validate"
    /\ result' = NoResult
    /\ scheduleKeys' = <<>>
    /\ schedule' = <<>>
    /\ staffKeys' = <<>>
    /\ staffInfo' = <<>>
    /\ staffWorkCount' = <<>>
    /\ dateIdx' = 0
    /\ availableStaff' = <<>>
    /\ cursor' = 0
    /\ assignedCount' = 0
    /\ UNCHANGED inputData

Rerun == CallAgain("optimize")
CallFlat == CallAgain("flat")

Next == Validate \/ Prepare \/ StartDate \/ Assign \/ Format

Spec == Init /\ [][Next]_vars

\* the request is sent twice to the per-day engine
NextRerun == Next \/ Rerun

SpecRerun == Init /\ [][NextRerun]_vars

\* the request is sent to the per-day engine, then to the flat engine
NextFlat == Next \/ CallFlat \/ FlatPrepare \/ FlatFormat

SpecFlat == Init /\ [][NextFlat]_vars

----------------------------------------------------------------------------
(* Vocabulary of the properties *)

Done == pc = "done"
Succeeded == Done /\ result.success
Accepted == ~MissingOrEmpty(inputData.staff) /\ ~MissingOrEmpty(inputData.dates)
InRun == pc = "loop"

\* roster member i is registered under staff id k
ResolvesTo(i, k) ==
    IF i \in Unidentified THEN k \in SyntheticIds \cup {"undefined"}
    ELSE StaffId(staffList[i], "") = k

\* the roster members whose record staffInfo[k] holds
Registered(k) ==
    {i \in 1..Len(staffList) : ResolvesTo(i, k) /\ staffInfo[k] = StaffInfoOf(staffList[i])}

\* position of x in a sequence that holds it
PosIn(s, x) == CHOOSE i \in 1..Len(s) : s[i] = x

\* the staff ids pushed for the current date by the current pass of the outer loop
Today ==
    LET all == schedule[dates[dateIdx]]
    IN SubSeq(all, Len(all) - assignedCount + 1, Len(all))

\* workCount, pool membership and score of k as they were when the current date started
StartCount(k) == staffWorkCount[k] - (IF k \in Range(Today) THEN 1 ELSE 0)
InPool(k) ==
    /\ dates[dateIdx] \notin staffInfo[k].unavailableDates
    /\ StartCount(k) < staffInfo[k].maxDays
StartScore(k) ==
    10 * StartCount(k) - (IF dates[dateIdx] \in staffInfo[k].preferredDates THEN 100 ELSE 0)

\* on the current date c1 is assigned before c2
AssignedBefore(c1, c2) ==
    c2 \in Range(Today) =>
        c1 \in Range(Today) /\ PosIn(Today, c1) < PosIn(Today, c2)

----------------------------------------------------------------------------
(* C1: at every point of a run, after each single assignment, the running
   workCount of every staff member is at most that member's maxDays, which is
   the max_days of the member's roster entry if given and the number of
   requested dates otherwise. *)
C1_WorkCountWithinMaxDays ==
    pc \in {"loop", "done"} /\ Accepted =>
        \A k \in DOMAIN staffWorkCount :
            /\ staffWorkCount[k] <= staffInfo[k].maxDays
            /\ Registered(k) # {}
            /\ \A i \in Registered(k) :
                  staffWorkCount[k] <= Nullish(staffList[i].max_days, Len(dates))

\* a lone member with max_days = 1, free on both of two dates, ends with one day
C1_Witness ==
    /\ Succeeded
    /\ Len(staffList) = 1 /\ Len(dates) = 2
    /\ staffList[1].max_days = Some(1)
    /\ staffList[1].unavailable_dates = {}
    /\ \A k \in DOMAIN staffWorkCount : staffWorkCount[k] = 1

(* C2: no schedule item lists a staff id whose member is unavailable on the
   item's date, also when the member prefers that date. *)
C2_NeverAssignedWhenUnavailable ==
    /\ pc \in {"loop", "done"} /\ Accepted =>
          \A d \in DOMAIN schedule : \A k \in Range(schedule[d]) :
              /\ d \notin staffInfo[k].unavailableDates
              /\ Registered(k) # {}
              /\ \A i \in Registered(k) : d \notin staffList[i].unavailable_dates
    /\ Succeeded =>
          \A n \in 1..Len(result.schedule) : \A k \in Range(result.schedule[n].staff) :
              result.schedule[n].date \notin staffInfo[k].unavailableDates

\* a lone member prefers d1 and is unavailable on d1: the item of d1 is empty
C2_Witness ==
    /\ Succeeded
    /\ Len(staffList) = 1 /\ dates = <<"d1">>
    /\ staffList[1].preferred_dates = {"d1"}
    /\ staffList[1].unavailable_dates = {"d1"}
    /\ staffList[1].max_days = Undefined
    /\ result.schedule[1].staff = <<>>

(* C3: in every returned schedule, the count of every item is at most
   maxStaffPerDay (max_staff_per_day if given, the roster size otherwise). *)
C3_CountWithinMaxStaffPerDay ==
    Succeeded =>
        \A n \in 1..Len(result.schedule) :
            /\ result.schedule[n].count = Len(result.schedule[n].staff)
            /\ result.schedule[n].count <= maxStaff

(* C4: in every successful result, the values of stats.staff_distribution sum
   to stats.total_assignments, and both equal the sum of count over the items
   of the schedule. *)
C4_TotalsAgree ==
    Succeeded =>
        LET dist == result.stats.staff_distribution
            keys == OwnKeys(staffKeys)
            counts == [n \in 1..Len(result.schedule) |-> result.schedule[n].count]
        IN /\ DOMAIN dist = Range(keys)
           /\ SumSeq([n \in 1..Len(keys) |-> dist[keys[n]]]) = result.stats.total_assignments
           /\ result.stats.total_assignments = SumSeq(counts)

(* C5: on every date, of two candidates of the pool with equal score, the one
   that comes earlier in the roster is assigned first: it precedes the other
   in the date's staff list, and if only one of the two is assigned it is the
   earlier one. *)
C5_StableTieBreak ==
    InRun /\ dateIdx >= 1 /\ InnerDone =>
        \A c1, c2 \in DOMAIN staffInfo :
            ( /\ InPool(c1) /\ InPool(c2)
              /\ StartScore(c1) = StartScore(c2)
              /\ PosIn(staffKeys, c1) < PosIn(staffKeys, c2) )
            => AssignedBefore(c1, c2)

(* C6: two runs of the per-day engine on the same request return the same
   output: the same schedule, the same stats (the keys of staff_distribution
   included) and the same warnings. *)
C6_RerunSameOutput ==
    Done /\ runs # <<>> => result = runs[1]

(* C7: a successful result holds exactly one warning for each entry of the
   date list whose item has count < minStaffPerDay and none for the others,
   stats.days_with_shortage is the number of those entries, and every
   accepted request succeeds whatever the shortage. *)
C7_WarningIffShortage ==
    Done /\ Accepted =>
        /\ result.success
        /\ LET items == result.schedule
               warnings == Nullish(result.warnings, <<>>)
               short == {n \in 1..Len(items) : items[n].count < minStaff}
           IN /\ Len(warnings) = Cardinality(short)
              /\ result.stats.days_with_shortage = Cardinality(short)
              /\ (result.warnings = Undefined) = (short = {})
              /\ \E at \in [1..Len(warnings) -> short] :
                    /\ \A i, j \in 1..Len(warnings) : i < j => at[i] < at[j]
                    /\ \A i \in 1..Len(warnings) :
                          warnings[i] = [date |-> items[at[i]].date,
                                         min |-> minStaff,
                                         count |-> items[at[i]].count]

\* the only member is unavailable on the only date: count 0, one warning, success
C7_Witness ==
    /\ Succeeded
    /\ Len(staffList) = 1 /\ dates = <<"d1">>
    /\ staffList[1].unavailable_dates = {"d1"}
    /\ inputData.constraints = [min_staff_per_day |-> Undefined, max_staff_per_day |-> Some(1)]
    /\ result.schedule[1].count = 0
    /\ result.warnings = Some(<<[date |-> "d1", min |-> 1, count |-> 0]>>)
    /\ result.stats.days_with_shortage = 1

(* C8: on every date, with score = 10 * workCount at the start of the date,
   minus 100 if the member prefers the date, a candidate of the pool with a
   strictly lower score is assigned before one with a strictly higher score:
   if the higher one is assigned that day, the lower one is too and precedes
   it in the staff list. *)
C8_LowerScoreFirst ==
    InRun /\ dateIdx >= 1 =>
        \A c1, c2 \in DOMAIN staffInfo :
            (InPool(c1) /\ InPool(c2) /\ StartScore(c1) < StartScore(c2))
            => AssignedBefore(c1, c2)

\* with one place per day, a member with one prior day who prefers the date is
\* taken and a member with no prior day who does not prefer it is left out
C8_Witness ==
    /\ InRun /\ dateIdx = 2 /\ InnerDone
    /\ maxStaff = 1
    /\ \E c1, c2 \in DOMAIN staffInfo :
          /\ InPool(c1) /\ InPool(c2)
          /\ StartCount(c1) = 1 /\ StartCount(c2) = 0
          /\ dates[dateIdx] \in staffInfo[c1].preferredDates
          /\ dates[dateIdx] \notin staffInfo[c2].preferredDates
          /\ Today = <<c1>>

(* C9: a missing or empty roster fails whatever the dates are, the roster
   being checked first; a missing or empty date list fails next; a failure
   has success false, an error and neither schedule nor stats, and no
   assignment work has been done. *)
C9_ValidationFailures ==
    Done =>
        /\ MissingOrEmpty(inputData.staff) => result = NoStaffError
        /\ ~MissingOrEmpty(inputData.staff) /\ MissingOrEmpty(inputData.dates)
              => result = NoDatesError
        /\ Accepted => result.success
        /\ ~result.success =>
              /\ DOMAIN result = {"success", "error"}
              /\ result.error # ""
              /\ staffInfo = <<>> /\ staffWorkCount = <<>> /\ schedule = <<>>
              /\ dateIdx = 0 /\ availableStaff = <<>>

\* roster and date list are both empty: the roster error is the one returned
C9_Witness ==
    /\ Done
    /\ MissingOrEmpty(inputData.staff) /\ MissingOrEmpty(inputData.dates)
    /\ result = NoStaffError

\* the (staff_id, date) pairs of shifts
ShiftPairs(shifts) == [j \in 1..Len(shifts) |-> <<shifts[j].staff_id, shifts[j].date>>]

\* the per-day schedule flattened item by item, each item in its staff-list order
RECURSIVE FlattenFrom(_, _)
FlattenFrom(items, n) ==
    IF n > Len(items) THEN <<>>
    ELSE [j \in 1..Len(items[n].staff) |-> <<items[n].staff[j], items[n].date>>]
         \o FlattenFrom(items, n + 1)

(* C10: on the same request the flat engine succeeds exactly when the per-day
   engine does, and the (staff_id, date) pairs of its shifts are the per-day
   schedule flattened in date-list order and, within a date, in staff-list
   order. *)
C10_FlatIsProjection ==
    Done /\ variant = "flat" =>
        /\ result.success = runs[1].success
        /\ result.success =>
              ShiftPairs(result.shifts) = FlattenFrom(runs[1].schedule, 1)

\* the candidate pool of the current date as it was when the date started
Pool == {k \in DOMAIN staffInfo : InPool(k)}

Min(a, b) == IF a <= b THEN a ELSE b

(* C11: when the inner loop of a date has ended, the number of staff assigned
   on that date is the minimum of maxStaffPerDay and the size of the date's
   candidate pool (the members not unavailable on the date whose workCount at
   the start of the date is below their maxDays); so the date is short of
   minStaffPerDay only if the pool is smaller than minStaffPerDay or
   maxStaffPerDay is below minStaffPerDay. *)
C11_GreedyFill ==
    InRun /\ dateIdx >= 1 /\ InnerDone =>
        /\ assignedCount = Min(maxStaff, Cardinality(Pool))
        /\ Len(Today) = assignedCount
        /\ Range(Today) \subseteq Pool
        /\ Cardinality(Range(Today)) = assignedCount
        /\ Len(schedule[dates[dateIdx]]) < minStaff =>
              Cardinality(Pool) < minStaff \/ maxStaff < minStaff

\* on the second date one of two members has used up max_days: two places, two
\* wanted, one candidate, one assigned
C11_Witness ==
    /\ InRun /\ dateIdx = 2 /\ InnerDone
    /\ dates = <<"d1", "d2">>
    /\ Cardinality(DOMAIN staffInfo) = 2
    /\ maxStaff = 2 /\ minStaff = 2
    /\ \A k \in DOMAIN staffInfo : dates[dateIdx] \notin staffInfo[k].unavailableDates
    /\ Cardinality(Pool) = 1
    /\ assignedCount = 1
    /\ Len(schedule[dates[dateIdx]]) = 1

====
